---- MODULE Spec2Model ----
(***************************************************************************)
(* PersistentSafetyStorage (consensus/safety-rules): the typed facade a    *)
(* consensus participant uses to persist its keys, safety data, owner      *)
(* account and waypoint in an injected secure store, optionally behind a   *)
(* read-through cache.                                                     *)
(*                                                                         *)
(* The facade itself is persistent_safety_storage.rs.  The store, the      *)
(* cache decorator and the text forms of Author and Waypoint live in other *)
(* crates; they are modelled here from their documented contracts.         *)
(***************************************************************************)
EXTENDS Integers, Sequences, FiniteSets, TLC

(***************************************************************************)
(* Record names (libra_global_constants).                                  *)
(***************************************************************************)
CONSENSUS_KEY == "consensus-key"
EXECUTION_KEY == "execution-key"
SAFETY_DATA == "safety-data"
OWNER_ACCOUNT == "owner-account"
WAYPOINT == "waypoint"

Names == {CONSENSUS_KEY, EXECUTION_KEY, SAFETY_DATA, OWNER_ACCOUNT, WAYPOINT}

(* The order in which initialize_ issues its five store writes. *)
InitOrder == <<CONSENSUS_KEY, EXECUTION_KEY, SAFETY_DATA, OWNER_ACCOUNT, WAYPOINT>>

(***************************************************************************)
(* Bounds of the model.                                                    *)
(***************************************************************************)
(* Audit-log entries kept per process before set_waypoint is cut off. *)
MaxLog == 1

(***************************************************************************)
(* Input domains.                                                          *)
(***************************************************************************)
(* Ed25519 private keys; PublicKeyOf is injective. *)
PrivateKeys == {"K1", "K2"}

PublicKeyOf(k) == <<"pub", k>>

PublicKeys == {PublicKeyOf(k) : k \in PrivateKeys}

(* Account addresses, as sequences of nibbles. *)
ADDRESS_HEX_LEN == 2

Authors == {<<0, 10>>, <<15, 3>>}

(* Waypoints: a ledger version and a hash (a sequence of nibbles). *)
HASH_HEX_LEN == 2

DefaultWaypoint == [version |-> 0, value |-> <<0, 0>>]

Waypoints == {DefaultWaypoint, [version |-> 12, value |-> <<10, 15>>]}

NoVote == "None"

SafetyDataNew(epoch, last_voted_round, preferred_round, last_vote) ==
    [epoch |-> epoch, last_voted_round |-> last_voted_round,
     preferred_round |-> preferred_round, last_vote |-> last_vote]

(* The arguments of set_safety_data: the value initialize_ writes, the   *)
(* value of the unit test, and one that carries a vote and is below the  *)
(* test's value in every counter.                                        *)
SafetyDatas ==
    {SafetyDataNew(1, 0, 0, NoVote), SafetyDataNew(9, 8, 1, NoVote),
     SafetyDataNew(2, 1, 0, "Vote")}

(***************************************************************************)
(* Text forms (Display / FromStr of Author and Waypoint).  Strings are     *)
(* sequences of one-character strings.                                     *)
(***************************************************************************)
DigitChars == <<"0", "1", "2", "3", "4", "5", "6", "7", "8", "9">>

HexChars == DigitChars \o <<"a", "b", "c", "d", "e", "f">>

ParseError == [ok |-> FALSE, err |-> "ParseError"]

Ok(v) == [ok |-> TRUE, val |-> v]

Err(e) == [ok |-> FALSE, err |-> e]

RECURSIVE U64ToString(_)
U64ToString(n) ==
    IF n < 10 THEN <<DigitChars[n + 1]>>
    ELSE U64ToString(n \div 10) \o <<DigitChars[(n % 10) + 1]>>

CharIndex(chars, c) ==
    IF \E i \in 1..Len(chars) : chars[i] = c
    THEN (CHOOSE i \in 1..Len(chars) : chars[i] = c) - 1
    ELSE -1

RECURSIVE U64FromStr(_)
U64FromStr(s) ==
    IF Len(s) = 0 THEN ParseError
    ELSE LET d == CharIndex(DigitChars, s[Len(s)]) IN
         IF d < 0 THEN ParseError
         ELSE IF Len(s) = 1 THEN Ok(d)
         ELSE LET hi == U64FromStr(SubSeq(s, 1, Len(s) - 1)) IN
              IF hi.ok THEN Ok(hi.val * 10 + d) ELSE ParseError

ToHex(nibbles) == [i \in 1..Len(nibbles) |-> HexChars[nibbles[i] + 1]]

FromHex(s, len) ==
    IF Len(s) # len \/ \E i \in 1..Len(s) : CharIndex(HexChars, s[i]) < 0
    THEN ParseError
    ELSE Ok([i \in 1..Len(s) |-> CharIndex(HexChars, s[i])])

AuthorToString(author) == ToHex(author)

AuthorFromStr(s) == FromHex(s, ADDRESS_HEX_LEN)

WaypointToString(w) == U64ToString(w.version) \o <<":">> \o ToHex(w.value)

WaypointFromStr(s) ==
    LET colons == {i \in 1..Len(s) : s[i] = ":"} IN
    IF Cardinality(colons) # 1 THEN ParseError
    ELSE LET c == CHOOSE i \in colons : TRUE
             version == U64FromStr(SubSeq(s, 1, c - 1))
             value == FromHex(SubSeq(s, c + 1, Len(s)), HASH_HEX_LEN)
         IN  IF version.ok /\ value.ok
             THEN Ok([version |-> version.val, value |-> value.val])
             ELSE ParseError

(***************************************************************************)
(* Typed values (libra_secure_storage::Value) and their narrowing.         *)
(***************************************************************************)
Absent == [tag |-> "Absent"]

ValueString(s) == [tag |-> "String", str |-> s]

ValueSafetyData(d) == [tag |-> "SafetyData", data |-> d]

ValuePrivateKey(k) == [tag |-> "Ed25519PrivateKey", key |-> k]

ValueAsString(v) ==
    IF v.tag = "String" THEN Ok(v.str) ELSE Err("UnexpectedValueType")

ValueAsSafetyData(v) ==
    IF v.tag = "SafetyData" THEN Ok(v.data) ELSE Err("UnexpectedValueType")

(***************************************************************************)
(* The secure store (libra_secure_storage: KVStorage + CryptoStorage).     *)
(* kv maps every record name to a value or Absent.  A write may be         *)
(* answered by a backend fault (I/O, network, permission): `fault`.        *)
(***************************************************************************)
EmptyStore == [n \in Names |-> Absent]

Unit == "unit"

StoreGet(kv, name) ==
    IF kv[name] = Absent THEN Err("KeyNotFound") ELSE Ok(kv[name])

StoreSet(kv, name, value, fault) ==
    IF fault THEN [kv |-> kv, res |-> Err("Other")]
    ELSE [kv |-> [kv EXCEPT ![name] = value], res |-> Ok(Unit)]

StoreImportPrivateKey(kv, name, key, fault) ==
    IF fault THEN [kv |-> kv, res |-> Err("Other")]
    ELSE IF kv[name] # Absent THEN [kv |-> kv, res |-> Err("KeyAlreadyExists")]
    ELSE [kv |-> [kv EXCEPT ![name] = ValuePrivateKey(key)], res |-> Ok(Unit)]

StoreGetPublicKey(kv, name) ==
    IF kv[name] = Absent THEN Err("KeyNotFound")
    ELSE IF kv[name].tag # "Ed25519PrivateKey" THEN Err("UnexpectedValueType")
    ELSE Ok(PublicKeyOf(kv[name].key))

StoreExportPrivateKeyForVersion(kv, name, version) ==
    LET pub == StoreGetPublicKey(kv, name) IN
    IF ~pub.ok THEN pub
    ELSE IF pub.val = version THEN Ok(kv[name].key)
    ELSE Err("KeyVersionNotFound")

(***************************************************************************)
(* Storage: the store behind zero or more CachedStorage layers.  `caches`  *)
(* lists the layers' maps, outermost first; <<>> is an uncached Storage.   *)
(* A layer answers `get` from its map when it holds the name, else         *)
(* delegates and keeps the answer; after a write it was asked to do it     *)
(* updates or drops its entry (`policy`); after a key import it drops it.  *)
(***************************************************************************)
EmptyCache == [n \in Names |-> Absent]

CachePolicies == {"update", "invalidate"}

(* The policy is observable only through a cache layer. *)
PoliciesFor(caches) == IF Len(caches) > 0 THEN CachePolicies ELSE {"update"}

CacheAfterWrite(c, name, value, policy) ==
    [c EXCEPT ![name] = IF policy = "update" THEN value ELSE Absent]

IsCachedStorage(caches) == Len(caches) > 0

RECURSIVE Get(_, _, _)
Get(caches, kv, name) ==
    IF ~IsCachedStorage(caches) THEN [caches |-> caches, res |-> StoreGet(kv, name)]
    ELSE LET c == Head(caches) IN
         IF c[name] # Absent THEN [caches |-> caches, res |-> Ok(c[name])]
         ELSE LET inner == Get(Tail(caches), kv, name) IN
              [caches |-> <<IF inner.res.ok THEN [c EXCEPT ![name] = inner.res.val]
                            ELSE c>> \o inner.caches,
               res |-> inner.res]

RECURSIVE Set(_, _, _, _, _, _)
Set(caches, kv, name, value, fault, policy) ==
    IF ~IsCachedStorage(caches)
    THEN LET r == StoreSet(kv, name, value, fault) IN
         [caches |-> caches, kv |-> r.kv, res |-> r.res]
    ELSE LET inner == Set(Tail(caches), kv, name, value, fault, policy) IN
         [caches |-> <<IF inner.res.ok
                       THEN CacheAfterWrite(Head(caches), name, value, policy)
                       ELSE Head(caches)>> \o inner.caches,
          kv |-> inner.kv, res |-> inner.res]

RECURSIVE ImportPrivateKey(_, _, _, _, _, _)
ImportPrivateKey(caches, kv, name, key, fault, policy) ==
    IF ~IsCachedStorage(caches)
    THEN LET r == StoreImportPrivateKey(kv, name, key, fault) IN
         [caches |-> caches, kv |-> r.kv, res |-> r.res]
    ELSE LET inner == ImportPrivateKey(Tail(caches), kv, name, key, fault, policy) IN
         [caches |-> <<IF inner.res.ok
                       THEN CacheAfterWrite(Head(caches), name, Absent, "invalidate")
                       ELSE Head(caches)>> \o inner.caches,
          kv |-> inner.kv, res |-> inner.res]

GetPublicKey(caches, kv, name) == StoreGetPublicKey(kv, name)

ExportPrivateKeyForVersion(caches, kv, name, version) ==
    StoreExportPrivateKeyForVersion(kv, name, version)

(***************************************************************************)
(* PersistentSafetyStorage: the operations, as functions of the Storage    *)
(* they are given (caches over kv).                                        *)
(***************************************************************************)
(* Mutant: the initial record starts at epoch 0. *)
InitialSafetyData_EpochZero == SafetyDataNew(0, 0, 0, NoVote)

(* The safety data initialize_ writes. *)
InitialSafetyData == SafetyDataNew(1, 0, 0, NoVote)

(* Mutant: every error of the import counts as an initialized store. *)
AlreadyInitialized_AnyError(result) == ~result.ok

(* Mutant: the re-initialization check matches the wrong error kind. *)
AlreadyInitialized_WrongKind(result) == result = Err("KeyNotFound")

(* The one import result initialize_ takes for "already initialized". *)
AlreadyInitialized(result) == result = Err("KeyAlreadyExists")

(* initialize_: `faults` holds the positions (in InitOrder) of the store   *)
(* writes the backend answers with a fault; `results` lists the results of *)
(* the store writes issued before returning, in order.                     *)
initialize_(caches, kv, author, consensus_private_key, execution_private_key, waypoint, faults, policy) ==
    LET r1 == ImportPrivateKey(caches, kv, CONSENSUS_KEY, consensus_private_key,
                               1 \in faults, policy)
    IN
    IF AlreadyInitialized(r1.res)
    THEN [caches |-> r1.caches, kv |-> r1.kv, res |-> Ok(Unit), results |-> <<r1.res>>]
    ELSE
    LET r2 == ImportPrivateKey(r1.caches, r1.kv, EXECUTION_KEY, execution_private_key,
                               2 \in faults, policy)
    IN
    IF ~r2.res.ok
    THEN [caches |-> r2.caches, kv |-> r2.kv, res |-> r2.res, results |-> <<r1.res, r2.res>>]
    ELSE
    LET r3 == Set(r2.caches, r2.kv, SAFETY_DATA,
                  ValueSafetyData(InitialSafetyData), 3 \in faults, policy)
    IN
    IF ~r3.res.ok
    THEN [caches |-> r3.caches, kv |-> r3.kv, res |-> r3.res,
          results |-> <<r1.res, r2.res, r3.res>>]
    ELSE
    LET r4 == Set(r3.caches, r3.kv, OWNER_ACCOUNT,
                  ValueString(AuthorToString(author)), 4 \in faults, policy)
    IN
    IF ~r4.res.ok
    THEN [caches |-> r4.caches, kv |-> r4.kv, res |-> r4.res,
          results |-> <<r1.res, r2.res, r3.res, r4.res>>]
    ELSE
    LET r5 == Set(r4.caches, r4.kv, WAYPOINT,
                  ValueString(WaypointToString(waypoint)), 5 \in faults, policy)
    IN  [caches |-> r5.caches, kv |-> r5.kv, res |-> r5.res,
         results |-> <<r1.res, r2.res, r3.res, r4.res, r5.res>>]

(* initialize: initialize_ then expect(): an Err panics, no handle exists. *)
initialize(caches, kv, author, consensus_private_key, execution_private_key, waypoint, faults, policy) ==
    LET r == initialize_(caches, kv, author, consensus_private_key,
                         execution_private_key, waypoint, faults, policy)
    IN  [caches |-> r.caches, kv |-> r.kv, res |-> r.res, results |-> r.results,
         handle |-> IF r.res.ok THEN "open" ELSE "aborted"]

(* One store write of initialize_ on a plain Storage: write i of InitOrder, *)
(* and what initialize_ does with its result: go on to the next write,     *)
(* return Ok, or return the error (which initialize turns into a panic).   *)
initialize_step(i, kv, author, consensus_private_key, execution_private_key, waypoint, fault) ==
    LET r == IF i = 1
             THEN ImportPrivateKey(<<>>, kv, CONSENSUS_KEY, consensus_private_key,
                                   fault, "update")
             ELSE IF i = 2
             THEN ImportPrivateKey(<<>>, kv, EXECUTION_KEY, execution_private_key,
                                   fault, "update")
             ELSE IF i = 3
             THEN Set(<<>>, kv, SAFETY_DATA, ValueSafetyData(InitialSafetyData),
                      fault, "update")
             ELSE IF i = 4
             THEN Set(<<>>, kv, OWNER_ACCOUNT, ValueString(AuthorToString(author)),
                      fault, "update")
             ELSE Set(<<>>, kv, WAYPOINT, ValueString(WaypointToString(waypoint)),
                      fault, "update")
    IN  [kv |-> r.kv, res |-> r.res,
         then |-> IF i = 1
                  THEN (IF AlreadyInitialized(r.res) THEN "returned" ELSE "running")
                  ELSE IF ~r.res.ok THEN "aborted"
                  ELSE IF i = 5 THEN "returned"
                  ELSE "running"]

(* Mutant: a cache layer is added whatever the Storage already is. *)
into_cached_AlwaysWraps(caches) == <<EmptyCache>> \o caches

into_cached(caches) ==
    IF IsCachedStorage(caches) THEN caches ELSE <<EmptyCache>> \o caches

author(caches, kv) ==
    LET g == Get(caches, kv, OWNER_ACCOUNT) IN
    IF ~g.res.ok THEN g
    ELSE LET s == ValueAsString(g.res.val) IN
         [caches |-> g.caches, res |-> IF s.ok THEN AuthorFromStr(s.val) ELSE s]

consensus_key_for_version(caches, kv, version) ==
    ExportPrivateKeyForVersion(caches, kv, CONSENSUS_KEY, version)

execution_public_key(caches, kv) == GetPublicKey(caches, kv, EXECUTION_KEY)

(* Mutant: a value of another variant reads as the default safety data. *)
safety_data_CoercesOtherVariant(caches, kv) ==
    LET g == Get(caches, kv, SAFETY_DATA)
        d == IF g.res.ok THEN ValueAsSafetyData(g.res.val) ELSE g.res
    IN  [caches |-> g.caches,
         res |-> IF g.res.ok /\ ~d.ok THEN Ok(SafetyDataNew(1, 0, 0, NoVote)) ELSE d]

(* Mutant: a missing record reads as the default safety data. *)
safety_data_DefaultsWhenMissing(caches, kv) ==
    LET g == Get(caches, kv, SAFETY_DATA) IN
    [caches |-> g.caches,
     res |-> IF g.res.ok THEN ValueAsSafetyData(g.res.val) ELSE Ok(SafetyDataNew(1, 0, 0, NoVote))]

safety_data(caches, kv) ==
    LET g == Get(caches, kv, SAFETY_DATA) IN
    [caches |-> g.caches,
     res |-> IF g.res.ok THEN ValueAsSafetyData(g.res.val) ELSE g.res]

CounterNames == {"epoch", "last_voted_round", "preferred_round"}

(* Mutant: the record is stored without its last vote. *)
set_safety_data_DropsVote(caches, kv, cnt, data, fault, policy) ==
    LET r == Set(caches, kv, SAFETY_DATA,
                 ValueSafetyData([data EXCEPT !.last_vote = NoVote]), fault, policy)
    IN  [caches |-> r.caches, kv |-> r.kv, res |-> r.res,
         counters |-> [epoch |-> data.epoch, last_voted_round |-> data.last_voted_round,
                       preferred_round |-> data.preferred_round]]

(* Mutant: the record is written to the store behind the cache layers. *)
set_safety_data_BypassesCache(caches, kv, cnt, data, fault, policy) ==
    LET r == Set(<<>>, kv, SAFETY_DATA, ValueSafetyData(data), fault, policy)
    IN  [caches |-> caches, kv |-> r.kv, res |-> r.res,
         counters |-> [epoch |-> data.epoch, last_voted_round |-> data.last_voted_round,
                       preferred_round |-> data.preferred_round]]

(* The counters hold i64; every value of SafetyDatas is below 2^63, where *)
(* the cast `as i64` keeps the value.                                     *)
set_safety_data(caches, kv, cnt, data, fault, policy) ==
    LET c1 == [cnt EXCEPT !["epoch"] = data.epoch]
        c2 == [c1 EXCEPT !["last_voted_round"] = data.last_voted_round]
        c3 == [c2 EXCEPT !["preferred_round"] = data.preferred_round]
        r == Set(caches, kv, SAFETY_DATA, ValueSafetyData(data), fault, policy)
    IN  [caches |-> r.caches, kv |-> r.kv, counters |-> c3, res |-> r.res]

waypoint(caches, kv) ==
    LET g == Get(caches, kv, WAYPOINT)
        s == IF g.res.ok THEN ValueAsString(g.res.val) ELSE g.res
    IN  [caches |-> g.caches,
         res |-> IF ~s.ok THEN s
                 ELSE LET w == WaypointFromStr(s.val) IN
                      IF w.ok THEN w ELSE Err("Unable to parse waypoint")]

(* Mutant: with a cache layer the waypoint is kept in the cache alone and *)
(* the call reports success without a write to the store.                *)
set_waypoint_CacheOnly(caches, kv, lg, wp, fault, policy) ==
    LET v == ValueString(WaypointToString(wp))
        r == Set(caches, kv, WAYPOINT, v, fault, policy)
    IN  IF IsCachedStorage(caches)
        THEN [caches |-> <<CacheAfterWrite(Head(caches), WAYPOINT, v, "update")>>
                             \o Tail(caches),
              kv |-> kv, res |-> Ok(Unit), log |-> Append(lg, wp)]
        ELSE [caches |-> r.caches, kv |-> r.kv, res |-> r.res,
              log |-> IF r.res.ok THEN Append(lg, wp) ELSE lg]

(* Mutant: the waypoint is written to the store behind the cache layers. *)
set_waypoint_BypassesCache(caches, kv, lg, wp, fault, policy) ==
    LET r == Set(<<>>, kv, WAYPOINT, ValueString(WaypointToString(wp)), fault, policy)
    IN  [caches |-> caches, kv |-> r.kv, res |-> r.res,
         log |-> IF r.res.ok THEN Append(lg, wp) ELSE lg]

(* Mutant: only the version of the waypoint is stored. *)
set_waypoint_VersionOnly(caches, kv, lg, wp, fault, policy) ==
    LET r == Set(caches, kv, WAYPOINT, ValueString(U64ToString(wp.version)), fault, policy)
    IN  [caches |-> r.caches, kv |-> r.kv, res |-> r.res,
         log |-> IF r.res.ok THEN Append(lg, wp) ELSE lg]

set_waypoint(caches, kv, lg, wp, fault, policy) ==
    LET r == Set(caches, kv, WAYPOINT, ValueString(WaypointToString(wp)), fault, policy)
    IN  [caches |-> r.caches, kv |-> r.kv, res |-> r.res,
         log |-> IF r.res.ok THEN Append(lg, wp) ELSE lg]

(***************************************************************************)
(* State.                                                                  *)
(*   backend         the durable contents of the store                     *)
(*   handle          "none": no PersistentSafetyStorage in this process;   *)
(*                   "open": one exists; "aborted": initialize panicked    *)
(*   internal_store  the handle's Storage: the cache layers over backend   *)
(*   counters        the process's safety-rules state gauges               *)
(*   log             the waypoint audit entries the process has emitted    *)
(*   last            the last call: operation, argument, result, the       *)
(*                   errors its store writes returned (name and kind),     *)
(*                   and for a writing call the store's contents and the   *)
(*                   outer cache entry of the written name before it       *)
(*   initialized     some initialize call has returned a handle over this  *)
(*                   store                                                 *)
(*   running         for each of the processes that run initialize at the  *)
(*                   same time on the one store: the position of its       *)
(*                   initialize_ (at: 0 not begun, i: write i of InitOrder *)
(*                   is the next or the last one issued), its outcome      *)
(*                   ("running", "returned", "aborted") and the names it   *)
(*                   has written                                           *)
(***************************************************************************)
VARIABLES backend, handle, internal_store, counters, log, last, initialized, running

vars == <<backend, handle, internal_store, counters, log, last, initialized, running>>

(* The processes of a concurrent initialization and their arguments. *)
Procs == {1, 2}

ProcArgs(p) ==
    IF p = 1
    THEN [author |-> <<0, 10>>, consensus_key |-> "K1", execution_key |-> "K1",
          waypoint |-> DefaultWaypoint]
    ELSE [author |-> <<15, 3>>, consensus_key |-> "K2", execution_key |-> "K2",
          waypoint |-> [version |-> 12, value |-> <<10, 15>>]]

NotBegun == [at |-> 0, status |-> "running", wrote |-> {}]

NoCounters == [c \in CounterNames |-> 0]

Call(op, arg, res, errors, pre) ==
    [op |-> op, arg |-> arg, res |-> res, errors |-> errors, pre |-> pre]

(* What a writing call finds: the store, and the outer cache entry of `name`. *)
Pre(caches, kv, name) ==
    [store |-> kv, cached |-> IF IsCachedStorage(caches) THEN Head(caches)[name] ELSE Absent]

(* The errors among the results of store writes to `names`, in order. *)
Errors(names, results) ==
    {<<names[i], results[i].err>> : i \in {j \in 1..Len(results) : ~results[j].ok}}

Init ==
    /\ backend = EmptyStore
    /\ handle = "none"
    /\ internal_store = <<>>
    /\ counters = NoCounters
    /\ log = <<>>
    /\ last = Call("start", Unit, Ok(Unit), {}, Unit)
    /\ initialized = FALSE
    /\ running = [p \in Procs |-> NotBegun]

(* The Storage values a caller can pass in: plain, or already cached. *)
StorageArgs == {<<>>, <<EmptyCache>>}

(* The fault patterns of one initialize_: the consensus-key import may fault, *)
(* and of the later writes the first that faults ends the call.               *)
InitFaults == {f \in SUBSET (1..5) : Cardinality(f \ {1}) <= 1}

Initialize ==
    /\ handle = "none"
    /\ \E storage \in StorageArgs, a \in Authors, ck \in PrivateKeys, ek \in PrivateKeys,
          wp \in Waypoints, faults \in InitFaults :
        \E policy \in PoliciesFor(storage) :
        \E r \in {initialize(storage, backend, a, ck, ek, wp, faults, policy)} :
        /\ backend' = r.kv
        /\ handle' = r.handle
        /\ internal_store' = IF r.handle = "open" THEN r.caches ELSE <<>>
        /\ initialized' = (initialized \/ r.handle = "open")
        /\ last' = Call("initialize",
                        [author |-> a, consensus_key |-> ck, execution_key |-> ek,
                         waypoint |-> wp],
                        r.res, Errors(InitOrder, r.results),
                        Pre(storage, backend, CONSENSUS_KEY))
    /\ UNCHANGED <<counters, log, running>>

(* in_memory: initialize over a store created for the call, which never *)
(* faults, with a random author and the default waypoint.               *)
InMemory ==
    /\ handle = "none"
    /\ backend = EmptyStore
    /\ \E a \in Authors, ck \in PrivateKeys, ek \in PrivateKeys :
        \E r \in {initialize(<<>>, backend, a, ck, ek, DefaultWaypoint, {}, "update")} :
        /\ backend' = r.kv
        /\ handle' = r.handle
        /\ internal_store' = r.caches
        /\ initialized' = (initialized \/ r.handle = "open")
        /\ last' = Call("in_memory",
                        [author |-> a, consensus_key |-> ck, execution_key |-> ek,
                         waypoint |-> DefaultWaypoint],
                        r.res, Errors(InitOrder, r.results),
                        Pre(<<>>, backend, CONSENSUS_KEY))
    /\ UNCHANGED <<counters, log, running>>

New ==
    /\ handle = "none"
    /\ \E storage \in StorageArgs :
        /\ internal_store' = storage
        /\ last' = Call("new", Unit, Ok(Unit), {}, Unit)
    /\ handle' = "open"
    /\ UNCHANGED <<backend, counters, log, initialized, running>>

IntoCached ==
    /\ handle = "open"
    /\ internal_store' = into_cached(internal_store)
    /\ last' = Call("into_cached", Unit, Ok(Unit), {}, Unit)
    /\ UNCHANGED <<backend, handle, counters, log, initialized, running>>

Author ==
    /\ handle = "open"
    /\ \E r \in {author(internal_store, backend)} :
        /\ internal_store' = r.caches
        /\ last' = Call("author", Unit, r.res, {}, Unit)
    /\ UNCHANGED <<backend, handle, counters, log, initialized, running>>

ConsensusKeyForVersion ==
    /\ handle = "open"
    /\ \E version \in PublicKeys :
        last' = Call("consensus_key_for_version", version,
                     consensus_key_for_version(internal_store, backend, version), {}, Unit)
    /\ UNCHANGED <<backend, handle, internal_store, counters, log, initialized, running>>

ExecutionPublicKey ==
    /\ handle = "open"
    /\ last' = Call("execution_public_key", Unit,
                    execution_public_key(internal_store, backend), {}, Unit)
    /\ UNCHANGED <<backend, handle, internal_store, counters, log, initialized, running>>

SafetyData ==
    /\ handle = "open"
    /\ \E r \in {safety_data(internal_store, backend)} :
        /\ internal_store' = r.caches
        /\ last' = Call("safety_data", Unit, r.res, {}, Unit)
    /\ UNCHANGED <<backend, handle, counters, log, initialized, running>>

SetSafetyData ==
    /\ handle = "open"
    /\ \E data \in SafetyDatas, fault \in BOOLEAN, policy \in PoliciesFor(internal_store) :
        \E r \in {set_safety_data(internal_store, backend, counters, data, fault, policy)} :
        /\ backend' = r.kv
        /\ internal_store' = r.caches
        /\ counters' = r.counters
        /\ last' = Call("set_safety_data", data, r.res, Errors(<<SAFETY_DATA>>, <<r.res>>),
                        Pre(internal_store, backend, SAFETY_DATA))
    /\ UNCHANGED <<handle, log, initialized, running>>

Waypoint ==
    /\ handle = "open"
    /\ \E r \in {waypoint(internal_store, backend)} :
        /\ internal_store' = r.caches
        /\ last' = Call("waypoint", Unit, r.res, {}, Unit)
    /\ UNCHANGED <<backend, handle, counters, log, initialized, running>>

SetWaypoint ==
    /\ handle = "open"
    /\ Len(log) < MaxLog
    /\ \E wp \in Waypoints, fault \in BOOLEAN, policy \in PoliciesFor(internal_store) :
        \E r \in {set_waypoint(internal_store, backend, log, wp, fault, policy)} :
        /\ backend' = r.kv
        /\ internal_store' = r.caches
        /\ log' = r.log
        /\ last' = Call("set_waypoint", wp, r.res, Errors(<<WAYPOINT>>, <<r.res>>),
                        Pre(internal_store, backend, WAYPOINT))
    /\ UNCHANGED <<handle, counters, initialized, running>>

(* The process ends (normally, or by the panic of initialize) and a new   *)
(* one starts over the same store: handle, caches, gauges and log are gone. *)
Restart ==
    /\ handle \in {"open", "aborted"}
    /\ handle' = "none"
    /\ internal_store' = <<>>
    /\ counters' = NoCounters
    /\ log' = <<>>
    /\ last' = Call("restart", Unit, Ok(Unit), {}, Unit)
    /\ UNCHANGED <<backend, initialized, running>>

Next ==
    \/ Initialize
    \/ InMemory
    \/ New
    \/ IntoCached
    \/ Author
    \/ ConsensusKeyForVersion
    \/ ExecutionPublicKey
    \/ SafetyData
    \/ SetSafetyData
    \/ Waypoint
    \/ SetWaypoint
    \/ Restart

Spec == Init /\ [][Next]_vars

(***************************************************************************)
(* Builds with cfg(test) or feature "testing": internal_store() hands out  *)
(* the Storage itself, through which any record can be set to any value.   *)
(***************************************************************************)
DirectValues ==
    {ValueString(WaypointToString(DefaultWaypoint)),
     ValueSafetyData(SafetyDataNew(2, 1, 0, "Vote"))}

InternalStoreSet ==
    /\ handle = "open"
    /\ \E name \in {SAFETY_DATA, OWNER_ACCOUNT, WAYPOINT}, value \in DirectValues,
          policy \in PoliciesFor(internal_store) :
        \E r \in {Set(internal_store, backend, name, value, FALSE, policy)} :
        /\ backend' = r.kv
        /\ internal_store' = r.caches
        /\ last' = Call("internal_store", [name |-> name, value |-> value], r.res, {},
                        Pre(internal_store, backend, name))
    /\ UNCHANGED <<handle, counters, log, initialized, running>>

(* A test's run: the in-memory storage of in_memory(), reads, updates of   *)
(* the safety data, and direct sets through internal_store().              *)
NextTesting ==
    \/ InMemory
    \/ IntoCached
    \/ Author
    \/ SafetyData
    \/ SetSafetyData
    \/ Waypoint
    \/ InternalStoreSet

SpecTesting == Init /\ [][NextTesting]_vars

(***************************************************************************)
(* initialize write by write: each process of Procs calls initialize once, *)
(* with its own arguments and a plain Storage, on the one store; a step is *)
(* one store call of initialize_ (l.70, 81, 82, 86, 87), which the store   *)
(* serves as a whole.                                                      *)
(***************************************************************************)
Begin(p) ==
    /\ running[p].at = 0
    /\ running' = [running EXCEPT ![p].at = 1]
    /\ UNCHANGED <<backend, handle, internal_store, counters, log, last, initialized>>

Step(p) ==
    /\ running[p].at \in 1..5
    /\ running[p].status = "running"
    /\ \E fault \in BOOLEAN :
        \E r \in {initialize_step(running[p].at, backend, ProcArgs(p).author,
                                  ProcArgs(p).consensus_key, ProcArgs(p).execution_key,
                                  ProcArgs(p).waypoint, fault)} :
        /\ backend' = r.kv
        /\ running' = [running EXCEPT ![p] =
               [at |-> IF r.then = "running" THEN running[p].at + 1 ELSE running[p].at,
                status |-> r.then,
                wrote |-> IF r.res.ok
                          THEN running[p].wrote \cup {InitOrder[running[p].at]}
                          ELSE running[p].wrote]]
    /\ UNCHANGED <<handle, internal_store, counters, log, last, initialized>>

NextSteps == \E p \in Procs : Begin(p) \/ Step(p)

SpecSteps == Init /\ [][NextSteps]_vars

(***************************************************************************)
(* Properties.                                                             *)
(***************************************************************************)
Initialized(kv) == \A n \in Names : kv[n] # Absent

IsInitializeCall(call) == call.op \in {"initialize", "in_memory"}

(* A handle just returned by initialize over a store that was empty. *)
FreshlyInitialized ==
    IsInitializeCall(last) /\ last.pre.store = EmptyStore /\ handle = "open"

(* C1: initialize run against a store that already holds all five records *)
(* writes nothing, whatever its arguments: every record keeps its         *)
(* pre-call value.  When the store answers the consensus-key import (with *)
(* key-already-exists, as its contract requires for an existing key) the  *)
(* call returns Ok and yields a handle instead of aborting.               *)
C1_ReinitializeWritesNothing ==
    [][(handle = "none" /\ last'.op = "initialize" /\ Initialized(backend)) =>
          /\ backend' = backend
          /\ (<<CONSENSUS_KEY, "Other">> \notin last'.errors =>
                 (last'.res = Ok(Unit) /\ handle' = "open"))]_vars

(* Reached: initialize has returned a handle over an initialized store whose *)
(* consensus key, owner account and waypoint all differ from its arguments.  *)
C1_Witness ==
    /\ last.op = "initialize"
    /\ handle = "open"
    /\ Initialized(last.pre.store)
    /\ backend[CONSENSUS_KEY] # ValuePrivateKey(last.arg.consensus_key)
    /\ backend[EXECUTION_KEY] # ValuePrivateKey(last.arg.execution_key)
    /\ backend[OWNER_ACCOUNT] # ValueString(AuthorToString(last.arg.author))
    /\ backend[WAYPOINT] # ValueString(WaypointToString(last.arg.waypoint))

(* C2: right after initialize has returned over an empty store, whatever  *)
(* its arguments, safety_data() returns exactly                           *)
(* {epoch 1, last_voted_round 0, preferred_round 0, last_vote None}.      *)
C2_FreshSafetyData ==
    FreshlyInitialized =>
        safety_data(internal_store, backend).res = Ok(SafetyDataNew(1, 0, 0, NoVote))

(* Reached: initialize (not in_memory) has returned over an empty store, *)
(* through a cached Storage, with a non-default waypoint.                *)
C2_Witness ==
    /\ last.op = "initialize"
    /\ FreshlyInitialized
    /\ IsCachedStorage(internal_store)
    /\ last.arg.waypoint # DefaultWaypoint

(* C3: right after set_safety_data(d) has returned Ok, safety_data()       *)
(* returns exactly d, in all four fields, whatever was stored before and  *)
(* whether or not d is above it.                                          *)
C3_SafetyDataRoundTrip ==
    (last.op = "set_safety_data" /\ last.res.ok) =>
        safety_data(internal_store, backend).res = Ok(last.arg)

(* Reached: a successful write, over a stored record that carries a vote, *)
(* of a record without one that is below it in epoch and round.           *)
C3_Witness ==
    /\ last.op = "set_safety_data"
    /\ last.res.ok
    /\ last.pre.store[SAFETY_DATA] = ValueSafetyData(SafetyDataNew(2, 1, 0, "Vote"))
    /\ last.arg = SafetyDataNew(1, 0, 0, NoVote)

(* C4: right after set_waypoint(w) has returned Ok, waypoint() returns    *)
(* exactly w; and right after initialize has returned over an empty store *)
(* with waypoint W0, waypoint() returns W0.                               *)
C4_WaypointRoundTrip ==
    /\ (last.op = "set_waypoint" /\ last.res.ok) =>
           waypoint(internal_store, backend).res = Ok(last.arg)
    /\ FreshlyInitialized =>
           waypoint(internal_store, backend).res = Ok(last.arg.waypoint)

(* Reached: a successful set_waypoint of a waypoint with a two-digit version *)
(* over a different stored waypoint.                                         *)
C4_Witness ==
    /\ last.op = "set_waypoint"
    /\ last.res.ok
    /\ last.arg.version >= 10
    /\ last.pre.store[WAYPOINT] = ValueString(WaypointToString(DefaultWaypoint))

ReadOps ==
    {"author", "consensus_key_for_version", "execution_public_key", "safety_data", "waypoint"}

(* C5: once initialize has returned a handle over the store, no call of    *)
(* the module makes a record absent, the safety data changes only in       *)
(* set_safety_data, the waypoint only in set_waypoint, the owner account   *)
(* and both keys never change, and author() returns the stored owner.      *)
C5_RecordsChangeOnlyBySetter ==
    [][initialized =>
          /\ \A n \in Names : backend[n] # Absent => backend'[n] # Absent
          /\ backend'[SAFETY_DATA] # backend[SAFETY_DATA] => last'.op = "set_safety_data"
          /\ backend'[WAYPOINT] # backend[WAYPOINT] => last'.op = "set_waypoint"
          /\ \A n \in {OWNER_ACCOUNT, CONSENSUS_KEY, EXECUTION_KEY} : backend'[n] = backend[n]
          /\ (last'.op = "author" /\ handle = "open" /\ backend[OWNER_ACCOUNT] # Absent) =>
                 /\ last'.res.ok
                 /\ backend[OWNER_ACCOUNT] = ValueString(AuthorToString(last'.res.val))]_vars

(* C6: in initialize, every error a store write returns other than         *)
(* key-already-exists from the consensus-key import makes the call abort   *)
(* (no handle is returned).                                                *)
C6_OtherErrorsAbort ==
    [][(handle = "none" /\ last'.op = "initialize"
          /\ last'.errors \ {<<CONSENSUS_KEY, "KeyAlreadyExists">>} # {}) =>
          handle' = "aborted"]_vars

(* C7: on a handle over a store that holds no record, each of the five     *)
(* reads returns the not-found error, never a value, and a read leaves the *)
(* store as it was.                                                        *)
C7_ReadsBeforeInitializationFail ==
    [][(handle = "open" /\ backend = EmptyStore) =>
          /\ author(internal_store, backend).res = Err("KeyNotFound")
          /\ safety_data(internal_store, backend).res = Err("KeyNotFound")
          /\ waypoint(internal_store, backend).res = Err("KeyNotFound")
          /\ execution_public_key(internal_store, backend) = Err("KeyNotFound")
          /\ \A v \in PublicKeys :
                 consensus_key_for_version(internal_store, backend, v) = Err("KeyNotFound")
          /\ last'.op \in ReadOps =>
                 (last'.res = Err("KeyNotFound") /\ backend' = backend)]_vars

(* Reached: safety_data() has failed on a handle made by new over an empty *)
(* store, through a cache layer.                                           *)
C7_Witness ==
    /\ last.op = "safety_data"
    /\ ~last.res.ok
    /\ handle = "open"
    /\ backend = EmptyStore
    /\ IsCachedStorage(internal_store)
    /\ ~initialized

(* C8: right after a successful set_safety_data or set_waypoint through a  *)
(* cached Storage, a read of that record returns the value just written,   *)
(* whatever the cache held for it before the write.                        *)
C8_CachedWriteThenRead ==
    IsCachedStorage(internal_store) =>
        /\ (last.op = "set_safety_data" /\ last.res.ok) =>
               safety_data(internal_store, backend).res = Ok(last.arg)
        /\ (last.op = "set_waypoint" /\ last.res.ok) =>
               waypoint(internal_store, backend).res = Ok(last.arg)

(* Reached: a successful set_safety_data through a cache layer that held a *)
(* different, earlier read value of the record.                            *)
C8_Witness ==
    /\ last.op = "set_safety_data"
    /\ last.res.ok
    /\ IsCachedStorage(internal_store)
    /\ last.pre.cached # Absent
    /\ last.pre.cached # ValueSafetyData(last.arg)

(* C9: into_cached on a cached Storage returns the same Storage (the same  *)
(* single layer with its entries), on an uncached one it adds one empty    *)
(* layer; a handle never has more than one cache layer.                    *)
C9_IntoCachedIdempotent ==
    [][(handle = "open" /\ last'.op = "into_cached") =>
          /\ IsCachedStorage(internal_store) => internal_store' = internal_store
          /\ ~IsCachedStorage(internal_store) => internal_store' = <<EmptyCache>>
          /\ Len(internal_store') = 1
          /\ into_cached(internal_store') = internal_store']_vars

(* Reached: into_cached has been applied to a Storage that was cached and *)
(* held entries, which it kept.                                           *)
C9_Witness ==
    /\ last.op = "into_cached"
    /\ Len(internal_store) = 1
    /\ internal_store[1][SAFETY_DATA] # Absent
    /\ internal_store[1][WAYPOINT] # Absent

(* C10: a set_safety_data or set_waypoint whose store write fails returns  *)
(* the error and leaves the stored records, the three counters and the     *)
(* audit log as they were before the call.                                 *)
C10_FailedSetterHasNoEffect ==
    [][(handle = "open" /\ last'.op \in {"set_safety_data", "set_waypoint"}
          /\ last'.errors # {}) =>
          /\ ~last'.res.ok
          /\ backend' = backend
          /\ counters' = counters
          /\ log' = log]_vars

(* C11: a typed accessor never coerces a value of another variant: when    *)
(* the safety-data name holds a string, safety_data() returns the value-   *)
(* type error; when the owner-account or the waypoint name holds a safety- *)
(* data value, author() respectively waypoint() returns it; and the read   *)
(* leaves the stored value as it was.                                      *)
C11_WrongVariantIsAnError ==
    [][handle = "open" =>
          /\ backend[SAFETY_DATA].tag = "String" =>
                 /\ safety_data(internal_store, backend).res = Err("UnexpectedValueType")
                 /\ last'.op = "safety_data" =>
                        (last'.res = Err("UnexpectedValueType") /\ backend' = backend)
          /\ backend[OWNER_ACCOUNT].tag = "SafetyData" =>
                 /\ author(internal_store, backend).res = Err("UnexpectedValueType")
                 /\ last'.op = "author" =>
                        (last'.res = Err("UnexpectedValueType") /\ backend' = backend)
          /\ backend[WAYPOINT].tag = "SafetyData" =>
                 /\ waypoint(internal_store, backend).res = Err("UnexpectedValueType")
                 /\ last'.op = "waypoint" =>
                        (last'.res = Err("UnexpectedValueType") /\ backend' = backend)]_vars

(* Reached: safety_data() has returned the value-type error through a cache *)
(* layer, over a store whose safety-data name holds a string.               *)
C11_Witness ==
    /\ last.op = "safety_data"
    /\ last.res = Err("UnexpectedValueType")
    /\ backend[SAFETY_DATA].tag = "String"
    /\ IsCachedStorage(internal_store)

(* C12: a setter returns Ok only after the store itself, not merely a      *)
(* cache layer, holds the new value: whenever set_safety_data(d) or         *)
(* set_waypoint(w) has returned Ok, the store's record is the written one,  *)
(* and a handle opened by new(store) after a restart, over a plain or a     *)
(* freshly cached Storage, reads d respectively w.                          *)
C12_OkSetterIsDurable ==
    /\ (last.op = "set_safety_data" /\ last.res.ok) =>
           /\ backend[SAFETY_DATA] = ValueSafetyData(last.arg)
           /\ \A storage \in StorageArgs : safety_data(storage, backend).res = Ok(last.arg)
    /\ (last.op = "set_waypoint" /\ last.res.ok) =>
           /\ backend[WAYPOINT] = ValueString(WaypointToString(last.arg))
           /\ \A storage \in StorageArgs : waypoint(storage, backend).res = Ok(last.arg)

(* Reached: set_waypoint has returned Ok through a cache layer, over a     *)
(* store that held another waypoint before the call.                       *)
C12_Witness ==
    /\ last.op = "set_waypoint"
    /\ last.res.ok
    /\ IsCachedStorage(internal_store)
    /\ last.pre.store[WAYPOINT] # Absent
    /\ last.pre.store[WAYPOINT] # ValueString(WaypointToString(last.arg))

(* C13: after initialize on a fresh store with consensus key K,            *)
(* consensus_key_for_version(p) returns K when p is the public key of K    *)
(* and an error for every p that matches no stored version; and no call    *)
(* ever returns a private key whose public half differs from p.            *)
C13_ConsensusKeyByVersion ==
    /\ FreshlyInitialized =>
           \A p \in PublicKeys :
               LET r == consensus_key_for_version(internal_store, backend, p) IN
               IF p = PublicKeyOf(last.arg.consensus_key)
               THEN r = Ok(last.arg.consensus_key)
               ELSE ~r.ok
    /\ handle = "open" =>
           \A p \in PublicKeys :
               LET r == consensus_key_for_version(internal_store, backend, p) IN
               r.ok => PublicKeyOf(r.val) = p

C15_InitializeNeverClobbers ==
    IsInitializeCall(last) =>
        \A name \in {CONSENSUS_KEY, EXECUTION_KEY, SAFETY_DATA} :
            last.pre.store[name] # Absent => backend[name] = last.pre.store[name]

(* C17: the cache decorator is observationally transparent: in every state *)
(* a sequence of accessor calls can reach, each of author, safety_data,    *)
(* set_safety_data, waypoint and set_waypoint returns through the cached   *)
(* Storage the result it returns through the plain Storage over the same   *)
(* store, and the setters leave the store with the same contents; so the   *)
(* two runs of any sequence agree call by call.                            *)
C17_CacheIsTransparent ==
    (handle = "open" /\ IsCachedStorage(internal_store)) =>
        /\ author(internal_store, backend).res = author(<<>>, backend).res
        /\ safety_data(internal_store, backend).res = safety_data(<<>>, backend).res
        /\ waypoint(internal_store, backend).res = waypoint(<<>>, backend).res
        /\ \A fault \in BOOLEAN, policy \in PoliciesFor(internal_store) :
               /\ \A data \in SafetyDatas :
                      LET cached == set_safety_data(internal_store, backend, counters,
                                                    data, fault, policy)
                          plain == set_safety_data(<<>>, backend, counters,
                                                   data, fault, "update")
                      IN  /\ cached.res = plain.res
                          /\ cached.kv = plain.kv
                          /\ cached.counters = plain.counters
               /\ \A wp \in Waypoints :
                      LET cached == set_waypoint(internal_store, backend, log,
                                                 wp, fault, policy)
                          plain == set_waypoint(<<>>, backend, log, wp, fault, "update")
                      IN  /\ cached.res = plain.res
                          /\ cached.kv = plain.kv
                          /\ cached.log = plain.log

(* Reached: waypoint() through a cache layer has returned the waypoint a   *)
(* set_waypoint of this handle wrote, and the cache holds the entry.       *)
C17_Witness ==
    /\ last.op = "waypoint"
    /\ last.res.ok
    /\ IsCachedStorage(internal_store)
    /\ Head(internal_store)[WAYPOINT] # Absent
    /\ log # <<>>
    /\ last.res.val = log[Len(log)]

(* The records present are the first n of InitOrder, for some n. *)
PrefixPresent(kv) ==
    \E n \in 0..Len(InitOrder) :
        \A i \in 1..Len(InitOrder) : (kv[InitOrder[i]] # Absent) <=> (i <= n)

(* Process p runs initialize and no other process has begun. *)
RunsAlone(p) == running[p].at > 0 /\ \A q \in Procs \ {p} : running[q].at = 0

(* C16: on a fresh store initialize issues its writes in the fixed order    *)
(* consensus key, execution key, safety data, owner account, waypoint and   *)
(* stops at the first failing write: it is past a write only when that      *)
(* write succeeded; hence in every intermediate state and after any abort   *)
(* the records present in the store are a prefix of that sequence.          *)
C16_WritesFormPrefix ==
    \A p \in Procs :
        RunsAlone(p) =>
            /\ \A i \in 1..Len(InitOrder) :
                   (i < running[p].at) => (InitOrder[i] \in running[p].wrote)
            /\ PrefixPresent(backend)

(* C18: two processes run initialize at the same time on one fresh store    *)
(* with different arguments: under every interleaving of their store calls  *)
(* at most one of them gets past the consensus-key import, no record is     *)
(* written twice, and once both are done every record in the store was      *)
(* written by the process whose consensus key is stored.                    *)
C18_OneInitializerWins ==
    /\ Cardinality({p \in Procs : running[p].at >= 2}) <= 1
    /\ \A p, q \in Procs : p # q => running[p].wrote \cap running[q].wrote = {}
    /\ (\A p \in Procs : running[p].at > 0 /\ running[p].status # "running") =>
           \A name \in Names :
               backend[name] # Absent =>
                   \E p \in Procs :
                       /\ name \in running[p].wrote
                       /\ CONSENSUS_KEY \in running[p].wrote
                       /\ backend[CONSENSUS_KEY] = ValuePrivateKey(ProcArgs(p).consensus_key)

====
